---------------------------- MODULE Spec2Model ----------------------------
(***************************************************************************)
(* Model of src/paired_subsampling.py: PairedSubsample.__call__ and the   *)
(* helpers it uses.  One run of the pipeline is a sequential program: the  *)
(* depth computation, the first pass over the BAM (unique query names),    *)
(* the random draw, the second pass (filtered rewrite with the duplicate   *)
(* flag cleared) and the two GATK subprocesses.                            *)
(*                                                                         *)
(* Floats are modelled as exact rationals: adjust_val and target_depth are *)
(* fractions [num, den].  human_base = 3.1e9 does not fit a 32-bit integer *)
(* and is kept as the product human_base_hi * human_base_lo.               *)
(***************************************************************************)
EXTENDS Integers, Sequences, FiniteSets, TLC

----------------------------------------------------------------------------
(* Bounds of the model *)

\* longest input BAM (number of records) that is enumerated
MaxReads == 3

\* query names that occur in the input BAM
QueryNames == {"q1", "q2", "q3"}

\* SAM flags that occur in the input BAM:
\*   99   = paired, proper pair, mate reverse, first in pair
\*   3089 = 0x800 + 0x400 + 17: supplementary, marked duplicate, reverse, paired
Flags == {99, 3089}

\* command line values of --read_len
ReadLens == {-150, 0, 150}

\* command line values of --adjust_val as fractions num/den: 1.0 and 1.2
AdjustVals == {[num |-> 1, den |-> 1], [num |-> 12, den |-> 10]}

\* command line values of --target_depth as fractions num/den:
\* 0, 1e-7, and 0.5
TargetDepths == {[num |-> 0, den |-> 10],
                 [num |-> 1, den |-> 10000000],
                 [num |-> 5, den |-> 10]}

\* exit statuses a subprocess can return
ReturnCodes == {0, 1}

----------------------------------------------------------------------------
(* Program constants *)

\* self.human_base = 3.1e9, as human_base_hi * human_base_lo
human_base_hi == 31000
human_base_lo == 100000

\* the duplicate bit of the SAM flag, 0x400
DupBit == 1024

\* every bit of a 12-bit SAM flag
FlagBits == {1, 2, 4, 8, 16, 32, 64, 128, 256, 512, 1024, 2048}

\* output artifacts of a run, by the suffix of their final path
SubsampledBam == "paired-subsampled.bam"
DedupedBam == "paired-subsampled.deduped.bam"
DedupedMetrics == "paired-subsampled.deduped.bam.metrics.txt"
WgsMetric == "paired-subsampled.deduped.bam.wgs-metrics.txt"

\* Python's None
None == "None"

\* no exception has been raised
NoError == [kind |-> "None", msg |-> ""]

Reads == [query_name : QueryNames, flag : Flags]

RECURSIVE SeqsUpTo(_)
SeqsUpTo(n) ==
    IF n = 0 THEN {<<>>}
    ELSE LET shorter == SeqsUpTo(n - 1)
         IN  shorter \cup {Append(s, r) : s \in {t \in shorter : Len(t) = n - 1}, r \in Reads}

Range(s) == {s[n] : n \in 1..Len(s)}

----------------------------------------------------------------------------
(* Pure helpers *)

\* Python's round() of the fraction n/d, d > 0, n >= 0: to nearest, ties to even
RoundHalfEven(q, r, d) ==
    IF r < d - r THEN q
    ELSE IF r > d - r THEN q + 1
    ELSE IF q % 2 = 0 THEN q ELSE q + 1

RoundFraction(n, d) ==
    IF n >= 0 THEN RoundHalfEven(n \div d, n % d, d)
    ELSE -RoundHalfEven((-n) \div d, (-n) % d, d)

\* round(self.human_base / read_len), read_len # 0
BaseReadCount(read_len) ==
    LET L == IF read_len < 0 THEN -read_len ELSE read_len
        qa == human_base_hi \div L
        ra == human_base_hi % L
        q  == qa * human_base_lo + (ra * human_base_lo) \div L
        r  == (ra * human_base_lo) % L
        rounded == RoundHalfEven(q, r, L)
    IN  IF read_len < 0 THEN -rounded ELSE rounded

ReadValMutant(paired) == 1

\* read_val = 2 if paired else 1
ReadVal(paired) == IF paired THEN 2 ELSE 1

calculate_target_read_number(read_len, adjust_val, target_depth, paired) ==
    LET read_val == ReadVal(paired)
        read_count == BaseReadCount(read_len)
    IN  RoundFraction(read_count * adjust_val.num * target_depth.num,
                      adjust_val.den * target_depth.den * read_val)

HasBit(flag, bit) == (flag \div bit) % 2 = 1

KeepFlagMutant(flag) == flag

\* if read.flag & 0x400: read.flag &= ~0x400
ClearDuplicate(flag) == IF HasBit(flag, DupBit) THEN flag - DupBit ELSE flag

IsNewMutant(query_name, seen) == TRUE

\* query_name not in seen_query_names
IsNew(query_name, seen) == query_name \notin seen

IsSampledMutant(read, sampled_set) == TRUE

\* read.query_name in sampled
IsSampled(read, sampled_set) == read.query_name \in sampled_set

InsufficientMutant(target, unique_count) == target >= unique_count

\* target_read_count > len(unique_query_list)
Insufficient(target, unique_count) == target > unique_count

SampleDrawsMutant(population, k) ==
    {S \in SUBSET Range(population) : S # {} /\ Cardinality(S) <= k} \cup
    (IF k = 0 THEN {{}} ELSE {})

\* set(sample(population, k)) for 0 <= k <= len(population): the possible draws
SampleDraws(population, k) ==
    {S \in SUBSET Range(population) : Cardinality(S) = k}

ReturnCodeFailsMutant(returncode) == FALSE

\* if proc.returncode: raise ChildProcessError
ReturnCodeFails(returncode) == returncode # 0

----------------------------------------------------------------------------
(* State *)

VARIABLES
    args,               \* the argparse.Namespace of the run
    bam,                \* the records of args.bam_path, in file order
    pc,                 \* stage of the run
    failed_at,          \* stage the run was in when it raised, or None
    error,              \* the exception raised, or NoError
    output_dir_made,    \* output_dir.mkdir has run
    target_read_count,  \* local of __call__ (0 until assigned)
    i,                  \* records consumed by get_unique_query_names
    unique_query_list,  \* local of get_unique_query_names / __call__
    seen_query_names,   \* local of get_unique_query_names
    sampled,            \* local of __call__ ({} until assigned)
    fwrite,             \* "unopened", "open" or "closed"
    j,                  \* records consumed by the write loop
    out,                \* records written to subsampled_bam_path
    files,              \* artifacts that exist at their final path
    calls,              \* subprocess invocations so far, with exit status
    retval              \* value returned by __call__, "unset" until it returns

vars == <<args, bam, pc, failed_at, error, output_dir_made, target_read_count,
          i, unique_query_list, seen_query_names, sampled, fwrite, j, out,
          files, calls, retval>>

Stages == <<"Init", "DepthComputed", "IdentitiesCollected", "Sampled",
            "Written", "DuplicatesMarked", "MetricsCollected", "Done">>

Init ==
    /\ args \in [read_len : ReadLens, adjust_val : AdjustVals,
                 target_depth : TargetDepths, paired : BOOLEAN]
    /\ bam \in SeqsUpTo(MaxReads)
    /\ pc = "Init"
    /\ failed_at = None
    /\ error = NoError
    /\ output_dir_made = FALSE
    /\ target_read_count = 0
    /\ i = 0
    /\ unique_query_list = <<>>
    /\ seen_query_names = {}
    /\ sampled = {}
    /\ fwrite = "unopened"
    /\ j = 0
    /\ out = <<>>
    /\ files = {}
    /\ calls = <<>>
    /\ retval = "unset"

\* an exception propagates out of __call__
Raise(exc) ==
    /\ pc' = "Failed"
    /\ failed_at' = pc
    /\ error' = exc

----------------------------------------------------------------------------
(* Actions *)

\* lines 214-221, read_len # 0
ComputeDepth ==
    /\ pc = "Init"
    /\ args.read_len # 0
    /\ output_dir_made' = TRUE
    /\ target_read_count' = calculate_target_read_number(
            args.read_len, args.adjust_val, args.target_depth, args.paired)
    /\ pc' = "DepthComputed"
    /\ UNCHANGED <<args, bam, failed_at, error, i, unique_query_list,
                   seen_query_names, sampled, fwrite, j, out, files, calls, retval>>

\* lines 214-220 and 95, read_len = 0: float division by zero
ComputeDepthZeroDivision ==
    /\ pc = "Init"
    /\ args.read_len = 0
    /\ output_dir_made' = TRUE
    /\ Raise([kind |-> "ZeroDivisionError", msg |-> "float division by zero"])
    /\ UNCHANGED <<args, bam, target_read_count, i, unique_query_list,
                   seen_query_names, sampled, fwrite, j, out, files, calls, retval>>

\* lines 118-122: one iteration of the loop of get_unique_query_names
CollectRead ==
    /\ pc = "DepthComputed"
    /\ i < Len(bam)
    /\ LET query_name == bam[i + 1].query_name
       IN  IF IsNew(query_name, seen_query_names)
           THEN /\ seen_query_names' = seen_query_names \cup {query_name}
                /\ unique_query_list' = Append(unique_query_list, query_name)
           ELSE UNCHANGED <<seen_query_names, unique_query_list>>
    /\ i' = i + 1
    /\ UNCHANGED <<args, bam, pc, failed_at, error, output_dir_made,
                   target_read_count, sampled, fwrite, j, out, files, calls, retval>>

\* lines 117-118: pysam fails to open or to read the input
CollectReadError ==
    /\ pc = "DepthComputed"
    /\ i < Len(bam)
    /\ Raise([kind |-> "OSError", msg |-> "bam_path"])
    /\ UNCHANGED <<args, bam, output_dir_made, target_read_count, i,
                   unique_query_list, seen_query_names, sampled, fwrite, j, out,
                   files, calls, retval>>

\* lines 124 and 223: the loop is exhausted and the list is returned
CollectDone ==
    /\ pc = "DepthComputed"
    /\ i = Len(bam)
    /\ pc' = "IdentitiesCollected"
    /\ UNCHANGED <<args, bam, failed_at, error, output_dir_made, target_read_count,
                   i, unique_query_list, seen_query_names, sampled, fwrite, j, out,
                   files, calls, retval>>

\* lines 225-226
RaiseInsufficient ==
    /\ pc = "IdentitiesCollected"
    /\ Insufficient(target_read_count, Len(unique_query_list))
    /\ Raise([kind |-> "ValueError", msg |-> "Insufficient unique query names",
              unique |-> Len(unique_query_list), target |-> target_read_count])
    /\ UNCHANGED <<args, bam, output_dir_made, target_read_count, i,
                   unique_query_list, seen_query_names, sampled, fwrite, j, out,
                   files, calls, retval>>

\* line 228, 0 <= target_read_count <= len(unique_query_list)
Sample ==
    /\ pc = "IdentitiesCollected"
    /\ ~Insufficient(target_read_count, Len(unique_query_list))
    /\ target_read_count >= 0
    /\ \E S \in SampleDraws(unique_query_list, target_read_count) : sampled' = S
    /\ pc' = "Sampled"
    /\ UNCHANGED <<args, bam, failed_at, error, output_dir_made, target_read_count,
                   i, unique_query_list, seen_query_names, fwrite, j, out, files,
                   calls, retval>>

\* line 228, target_read_count < 0: random.sample raises ValueError
SampleNegative ==
    /\ pc = "IdentitiesCollected"
    /\ ~Insufficient(target_read_count, Len(unique_query_list))
    /\ target_read_count < 0
    /\ Raise([kind |-> "ValueError", msg |-> "Sample larger than population or is negative"])
    /\ UNCHANGED <<args, bam, output_dir_made, target_read_count, i,
                   unique_query_list, seen_query_names, sampled, fwrite, j, out,
                   files, calls, retval>>

\* lines 230-232: the output BAM is created at its final path
OpenOutput ==
    /\ pc = "Sampled"
    /\ fwrite = "unopened"
    /\ fwrite' = "open"
    /\ files' = files \cup {SubsampledBam}
    /\ UNCHANGED <<args, bam, pc, failed_at, error, output_dir_made,
                   target_read_count, i, unique_query_list, seen_query_names,
                   sampled, j, out, calls, retval>>

\* lines 233-237: one iteration of the write loop
WriteRead ==
    /\ pc = "Sampled"
    /\ fwrite = "open"
    /\ j < Len(bam)
    /\ LET read == bam[j + 1]
       IN  IF IsSampled(read, sampled)
           THEN out' = Append(out, [read EXCEPT !.flag = ClearDuplicate(read.flag)])
           ELSE out' = out
    /\ j' = j + 1
    /\ UNCHANGED <<args, bam, pc, failed_at, error, output_dir_made,
                   target_read_count, i, unique_query_list, seen_query_names,
                   sampled, fwrite, files, calls, retval>>

\* lines 231-237: reading or writing fails part-way; the with blocks close
\* the file, which stays at subsampled_bam_path
WriteError ==
    /\ pc = "Sampled"
    /\ fwrite = "open"
    /\ j < Len(bam)
    /\ fwrite' = "closed"
    /\ Raise([kind |-> "OSError", msg |-> SubsampledBam])
    /\ UNCHANGED <<args, bam, output_dir_made, target_read_count, i,
                   unique_query_list, seen_query_names, sampled, j, out, files,
                   calls, retval>>

\* lines 231-237: the loop is exhausted and the with blocks close the file
WriteDone ==
    /\ pc = "Sampled"
    /\ fwrite = "open"
    /\ j = Len(bam)
    /\ fwrite' = "closed"
    /\ pc' = "Written"
    /\ UNCHANGED <<args, bam, failed_at, error, output_dir_made, target_read_count,
                   i, unique_query_list, seen_query_names, sampled, j, out, files,
                   calls, retval>>

\* the wrapper of run_subprocess, lines 55-64, around one command
RunSubprocess(stage, next_stage, cmd, outputs) ==
    /\ pc = stage
    /\ \E returncode \in ReturnCodes :
          /\ calls' = Append(calls, [cmd |-> cmd, returncode |-> returncode])
          /\ files' = IF returncode = 0 THEN files \cup outputs ELSE files
          /\ IF ReturnCodeFails(returncode)
             THEN Raise([kind |-> "ChildProcessError", msg |-> cmd])
             ELSE /\ pc' = next_stage
                  /\ UNCHANGED <<failed_at, error>>
    /\ UNCHANGED <<args, bam, output_dir_made, target_read_count, i,
                   unique_query_list, seen_query_names, sampled, fwrite, j, out,
                   retval>>

\* lines 240-242 and 126-162
MarkDuplicates ==
    RunSubprocess("Written", "DuplicatesMarked", "mark_duplicates",
                  {DedupedBam, DedupedMetrics})

\* lines 245-246 and 164-197
CollectWgsMetric ==
    RunSubprocess("DuplicatesMarked", "MetricsCollected", "collect_wgs_metric",
                  {WgsMetric})

\* lines 247-248: the function falls off its end
Return ==
    /\ pc = "MetricsCollected"
    /\ retval' = None
    /\ pc' = "Done"
    /\ UNCHANGED <<args, bam, failed_at, error, output_dir_made, target_read_count,
                   i, unique_query_list, seen_query_names, sampled, fwrite, j, out,
                   files, calls>>

Next ==
    \/ ComputeDepth
    \/ ComputeDepthZeroDivision
    \/ CollectRead
    \/ CollectReadError
    \/ CollectDone
    \/ RaiseInsufficient
    \/ Sample
    \/ SampleNegative
    \/ OpenOutput
    \/ WriteRead
    \/ WriteError
    \/ WriteDone
    \/ MarkDuplicates
    \/ CollectWgsMetric
    \/ Return

Spec == Init /\ [][Next]_vars

TypeOK ==
    /\ pc \in Range(Stages) \cup {"Failed"}
    /\ i \in 0..Len(bam)
    /\ j \in 0..Len(bam)
    /\ files \subseteq {SubsampledBam, DedupedBam, DedupedMetrics, WgsMetric}

----------------------------------------------------------------------------
(* Properties *)

StageIndex(stage) == CHOOSE n \in 1..Len(Stages) : Stages[n] = stage

\* the run got past `stage` without raising in or before it
Passed(stage) ==
    IF pc = "Failed" THEN StageIndex(failed_at) > StageIndex(stage)
    ELSE StageIndex(pc) > StageIndex(stage)

\* the run entered `stage` (and may have raised in it)
Entered(stage) ==
    IF pc = "Failed" THEN StageIndex(failed_at) >= StageIndex(stage)
    ELSE StageIndex(pc) >= StageIndex(stage)

\* the source records read so far by the write loop whose name was drawn
KeptSoFar ==
    LET Drawn(read) == read.query_name \in sampled
    IN  SelectSeq(SubSeq(bam, 1, j), Drawn)

NamesOf(reads) == [n \in 1..Len(reads) |-> reads[n].query_name]

\* C1: the records written by the second pass are exactly the source records
\* whose query name is in the sampled set, in source order, each once; no
\* record of an unsampled name is written.
C1_WriteIsFilter ==
    /\ NamesOf(out) = NamesOf(KeptSoFar)
    /\ \A n \in 1..Len(out) : out[n].query_name \in sampled
    /\ \A q \in QueryNames :
          Cardinality({n \in 1..Len(out) : out[n].query_name = q}) =
              IF q \in sampled
              THEN Cardinality({n \in 1..j : bam[n].query_name = q})
              ELSE 0

C1_Witness ==
    /\ pc = "Written"
    /\ Len(out) = 2
    /\ Len(bam) = 3
    /\ out[1].query_name = out[2].query_name
    /\ bam[2].query_name \notin sampled

\* C2: every written record has the flag of its source record with bit 0x400
\* cleared; all other flag bits and the query name are unchanged.
C2_OnlyDupBitCleared ==
    /\ Len(out) = Len(KeptSoFar)
    /\ \A n \in 1..Len(out) :
          /\ out[n].query_name = KeptSoFar[n].query_name
          /\ ~HasBit(out[n].flag, 1024)
          /\ \A bit \in FlagBits \ {1024} :
                HasBit(out[n].flag, bit) <=> HasBit(KeptSoFar[n].flag, bit)
          /\ DOMAIN out[n] = DOMAIN KeptSoFar[n]

C2_Witness ==
    /\ pc = "Written"
    /\ Len(out) = 2
    /\ HasBit(KeptSoFar[1].flag, 1024)
    /\ ~HasBit(KeptSoFar[2].flag, 1024)

\* C3: when the target read count exceeds the number of unique query names
\* the run aborts with the error that reports both numbers, before the output
\* file is created and before any subprocess runs; when they are equal the run
\* does not abort on this check.
C3_InsufficientAborts ==
    /\ Entered("IdentitiesCollected") /\ pc # "IdentitiesCollected"
        /\ target_read_count > Len(unique_query_list)
       => /\ pc = "Failed"
          /\ failed_at = "IdentitiesCollected"
          /\ error.kind = "ValueError"
          /\ error.msg = "Insufficient unique query names"
          /\ error.target = target_read_count
          /\ error.unique = Cardinality({bam[n].query_name : n \in 1..Len(bam)})
          /\ files = {}
          /\ fwrite = "unopened"
          /\ calls = <<>>
    /\ error.msg = "Insufficient unique query names"
       => target_read_count > Len(unique_query_list)
    /\ Entered("IdentitiesCollected") /\ pc # "IdentitiesCollected"
        /\ target_read_count = Len(unique_query_list)
       => pc # "Failed" \/ failed_at # "IdentitiesCollected"

C3_Witness ==
    /\ pc = "Failed"
    /\ error.msg = "Insufficient unique query names"
    /\ error.target = 2
    /\ error.unique = 1

\* C4: in every run that reaches the write pass the sampled set is a subset of
\* the collected names with exactly target_read_count members, and
\* target_read_count is at most the number of collected names; a draw of all
\* names is the full set and a draw of 0 is empty, with no record written.
C4_SampleSize ==
    Entered("Sampled") =>
        /\ sampled \subseteq Range(unique_query_list)
        /\ Cardinality(sampled) = target_read_count
        /\ target_read_count <= Cardinality(Range(unique_query_list))
        /\ target_read_count = Cardinality(Range(unique_query_list))
              => sampled = Range(unique_query_list)
        /\ target_read_count = 0 => sampled = {} /\ out = <<>>

C4_Witness ==
    /\ pc = "Written"
    /\ target_read_count = 2
    /\ Len(unique_query_list) = 3
    /\ Len(out) = 2

\* index of the first record of the source that carries the name
FirstIndex(query_name) ==
    CHOOSE n \in 1..Len(bam) :
        /\ bam[n].query_name = query_name
        /\ \A m \in 1..(n - 1) : bam[m].query_name # query_name

\* C5: the list built by get_unique_query_names has no duplicates, holds
\* exactly the distinct query names of the records read, in order of first
\* occurrence; it is empty for an empty stream and is determined by the
\* stream content alone.
C5_UniqueInFirstOccurrenceOrder ==
    /\ \A a, b \in 1..Len(unique_query_list) :
          a # b => unique_query_list[a] # unique_query_list[b]
    /\ Range(unique_query_list) = {bam[n].query_name : n \in 1..i}
    /\ Len(unique_query_list) = Cardinality({bam[n].query_name : n \in 1..i})
    /\ \A a, b \in 1..Len(unique_query_list) :
          a < b => FirstIndex(unique_query_list[a]) < FirstIndex(unique_query_list[b])
    /\ Passed("DepthComputed") => i = Len(bam)

C5_Witness ==
    /\ pc = "IdentitiesCollected"
    /\ Len(bam) = 3
    /\ bam[1].query_name = "q2"
    /\ bam[2].query_name = "q1"
    /\ bam[3].query_name = "q2"
    /\ unique_query_list = <<"q2", "q1">>

\* the arguments of the end-to-end scenario: read_len 150, adjust_val 1.2,
\* target_depth 0.5
ScenarioArgs(paired) ==
    [read_len |-> 150, adjust_val |-> [num |-> 12, den |-> 10],
     target_depth |-> [num |-> 5, den |-> 10], paired |-> paired]

\* C6: for every read_len <= 0 the depth computation fails, before the first
\* pass over the input begins.
C6_NonPositiveReadLenRejected ==
    args.read_len <= 0 /\ pc # "Init" =>
        /\ pc = "Failed"
        /\ failed_at = "Init"
        /\ i = 0

\* C7 as stated: read_len 150, adjust_val 1.2, target_depth 0.5, paired gives
\* 12,400,000.
C7_Original ==
    args = ScenarioArgs(TRUE) /\ Passed("Init") => target_read_count = 12400000

\* C7 amended: read_len 150, adjust_val 1.2, target_depth 0.5 gives 6,200,000
\* when paired (divisor 2) and 12,400,000 when not paired (divisor 1); the
\* result is the integer nearest to round(human_base / read_len) * adjust_val
\* * target_depth / divisor.
C7_ScenarioValue ==
    /\ args = ScenarioArgs(TRUE) /\ Passed("Init") => target_read_count = 6200000
    /\ args = ScenarioArgs(FALSE) /\ Passed("Init") => target_read_count = 12400000
    /\ Passed("Init") /\ args.read_len = 150 =>
          LET divisor == IF args.paired THEN 2 ELSE 1
              numer == 20666667 * args.adjust_val.num * args.target_depth.num
              denom == args.adjust_val.den * args.target_depth.den * divisor
              diff  == numer - target_read_count * denom
          IN  /\ diff <= denom - diff
              /\ -diff <= denom + diff

C7_Witness ==
    /\ args = ScenarioArgs(TRUE)
    /\ pc = "DepthComputed"
    /\ target_read_count = 6200000

\* C8: a run that ends in failure leaves no output artifact at its final path.
C8_NoOutputAfterFailure ==
    pc = "Failed" => files = {}

\* C9: a run that completes returns the path of the subsampled BAM.
C9_ReturnsSubsampledPath ==
    pc = "Done" => retval = SubsampledBam

C10_Inv ==
    /\ pc = "Failed" <=> error # NoError
    /\ pc = "Failed" <=> failed_at # None
    /\ pc = "Failed" => failed_at \in Range(Stages) \ {"Done"}
    \* the second pass starts only after the first has finished and the
    \* sampled set is built
    /\ fwrite # "unopened" \/ j > 0 \/ out # <<>> \/ files # {}
          => Entered("Sampled") /\ i = Len(bam)
    /\ sampled # {} => Entered("Sampled")
    /\ i > 0 => Entered("DepthComputed")
    \* mark_duplicates runs only after the write pass completed
    /\ Len(calls) >= 1
          => /\ calls[1].cmd = "mark_duplicates"
             /\ Entered("Written")
             /\ fwrite = "closed"
             /\ j = Len(bam)
    \* collect_wgs_metric runs only after mark_duplicates returned 0
    /\ Len(calls) >= 2
          => /\ calls[2].cmd = "collect_wgs_metric"
             /\ calls[1].returncode = 0
             /\ Entered("DuplicatesMarked")
    /\ Len(calls) <= 2
    /\ pc = "Done" => Len(calls) = 2 /\ calls[2].returncode = 0

C10_Step ==
    /\ pc \notin {"Failed", "Done"}
    /\ \/ pc' = pc
       \/ pc' = "Failed" /\ failed_at' = pc
       \/ pc' = Stages[StageIndex(pc) + 1]

\* C10: a run moves through the stages in the order Init, DepthComputed,
\* IdentitiesCollected, Sampled, Written, DuplicatesMarked, MetricsCollected,
\* Done, one at a time; the passes do not overlap; each subprocess runs only
\* after the stage before it succeeded; an error moves the run to Failed;
\* nothing changes after Failed or Done.
C10_StageOrder == []C10_Inv /\ [][C10_Step]_vars

C10_Witness ==
    /\ pc = "Done"
    /\ Len(calls) = 2
    /\ Len(out) = 3

=============================================================================
